---- MODULE Spec2Model ----
(***************************************************************************)
(* Posture classification of keras-face-recognition:                       *)
(* PostureAnalyzer.analyze_posture and calculate_angle                     *)
(* (src/src/posture_analyzer.py), called once per frame by the capture     *)
(* loop (src/src/main.py) and the WebSocket endpoint (src/src/web_app.py). *)
(*                                                                         *)
(* Numbers.  The program computes with Python floats; the model computes   *)
(* with integers in fixed point:                                           *)
(*   - a coordinate is written in input units of 1/10000 of the image and  *)
(*     held in quarter units (1/40000), so that the two midpoints the code *)
(*     takes (shoulder_mid, neck_estimate) are exact;                      *)
(*   - a landmark's "confidence" is in hundredths;                         *)
(*   - an angle is in tenths of a degree, rounded down;                    *)
(*   - a result's confidence is in ten-thousandths, rounded down.          *)
(* Float rounding below that resolution is not modelled.  Python's None is *)
(* the empty tuple and a value v that may be None is <<v>>.  Messages are  *)
(* records of the English reading of the text and the number shown in it.  *)
(***************************************************************************)
EXTENDS Integers, Sequences, FiniteSets, TLC

VARIABLES
    threshold_angle,   \* self.threshold_angle, tenths of a degree
    landmarks_dict,    \* the argument of the call in progress (None when idle)
    pc,                \* "idle", "called", "returned" or "raised"
    result,            \* the dictionary analyze_posture returned (None before)
    return_line,       \* the source line of the return or raise that ended the call
    \* PoseDetector.__init__ (src/src/pose_detector.py)
    model_name,        \* the argument of the constructor
    hub_load,          \* what hub.load does for each of the three URLs
    input_size,        \* self.input_size (0 before the constructor has set it)
    model,             \* self.model
    model_callable,    \* self.model_callable
    tried,             \* the URLs hub.load has been called with, in order
    load_pc,           \* "new", "loop", "check", "constructed" or "raised"
    \* callers of several PostureAnalyzer instances
    analyzers,         \* instance -> its fields
    calls,             \* the calls made so far: instance, threshold, argument, outcome
    \* websocket_endpoint (src/src/web_app.py), one handler per connection
    ws_pc,             \* connection -> "receive", "analyze", "send", "raised" or "closed"
    ws_received,       \* connection -> the messages receive_text has returned
    ws_landmarks,      \* connection -> the handler's landmarks_dict
    ws_result,         \* connection -> the handler's posture_result
    ws_sent            \* connection -> the payloads send_json has sent

posture_vars == <<threshold_angle, landmarks_dict, pc, result, return_line>>
load_vars == <<model_name, hub_load, input_size, model, model_callable, tried, load_pc>>
calls_vars == <<analyzers, calls>>
ws_vars == <<ws_pc, ws_received, ws_landmarks, ws_result, ws_sent>>

vars == <<threshold_angle, landmarks_dict, pc, result, return_line,
          model_name, hub_load, input_size, model, model_callable, tried, load_pc,
          analyzers, calls,
          ws_pc, ws_received, ws_landmarks, ws_result, ws_sent>>

None == <<>>
Some(v) == <<v>>

----------------------------------------------------------------------------
(* Units and the constants of the source.                                   *)

NOSE == 0
LEFT_EAR == 3
LEFT_SHOULDER == 5
RIGHT_SHOULDER == 6
LEFT_HIP == 11
RIGHT_HIP == 12

ScoreThreshold == 30         \* 0.3, the literal of every landmark test
NeckOffset == 2000           \* 0.05 in quarter units
YDiffThreshold == 600        \* 0.015 in quarter units
YDiffFull == 3200            \* 0.08 in quarter units
YDiffWindow == 1200          \* 0.03 in quarter units
AngleTrigger == 750          \* 75 degrees
AngleWindow == 150           \* 15 degrees
HipWindow == 300             \* 30 degrees
StraightAngle == 1800        \* 180 degrees
RightAngle == 900            \* 90.0 degrees
One == 10000                 \* confidence 1.0
DefaultThreshold == 350      \* threshold_angle=35.0

----------------------------------------------------------------------------
(* Arithmetic.                                                              *)

Abs(n) == IF n < 0 THEN -n ELSE n
Min(a, b) == IF a <= b THEN a ELSE b
Max(a, b) == IF a >= b THEN a ELSE b

\* a / b < c / d for a, c >= 0 and b, d > 0, decided on the integer parts
\* and then on the inverted remainders, so that no product is formed.
RECURSIVE FractionLess(_, _, _, _)
FractionLess(a, b, c, d) ==
    LET qa == a \div b
        qc == c \div d
        ra == a % b
        rc == c % d
    IN  IF qa # qc THEN qa < qc
        ELSE IF rc = 0 THEN FALSE
        ELSE IF ra = 0 THEN TRUE
        ELSE FractionLess(d, rc, b, ra)

\* a * b < c * d for a, b, c, d >= 0.
ProductLess(a, b, c, d) ==
    IF c = 0 \/ d = 0 THEN FALSE
    ELSE IF a = 0 \/ b = 0 THEN TRUE
    ELSE FractionLess(a, d, c, b)

\* sin of d tenths of a degree, d in 0..900, times 10^9.
SinTable == <<
    0, 1745328, 3490651, 5235964, 6981260, 8726535, 10471784, 12217001,
    13962180, 15707317, 17452406, 19197442, 20942420, 22687334, 24432178, 26176948,
    27921639, 29666244, 31410759, 33155178, 34899497, 36643709, 38387809, 40131793,
    41875654, 43619387, 45362988, 47106451, 48849770, 50592940, 52335956, 54078813,
    55821505, 57564027, 59306374, 61048540, 62790520, 64532308, 66273900, 68015291,
    69756474, 71497444, 73238197, 74978727, 76719028, 78459096, 80198924, 81938509,
    83677843, 85416923, 87155743, 88894297, 90632580, 92370587, 94108313, 95845753,
    97582900, 99319750, 101056297, 102792537, 104528463, 106264071, 107999356, 109734311,
    111468932, 113203214, 114937150, 116670737, 118403968, 120136839, 121869343, 123601477,
    125333234, 127064609, 128795597, 130526192, 132256390, 133986185, 135715572, 137444546,
    139173101, 140901232, 142628934, 144356201, 146083029, 147809411, 149535343, 151260820,
    152985836, 154710386, 156434465, 158158067, 159881188, 161603821, 163325962, 165047606,
    166768747, 168489380, 170209499, 171929100, 173648178, 175366726, 177084740, 178802215,
    180519145, 182235525, 183951351, 185666615, 187381315, 189095443, 190808995, 192521967,
    194234351, 195946144, 197657340, 199367934, 201077921, 202787295, 204496052, 206204185,
    207911691, 209618563, 211324796, 213030386, 214735327, 216439614, 218143241, 219846204,
    221548498, 223250116, 224951054, 226651307, 228350870, 230049737, 231747903, 233445364,
    235142113, 236838146, 238533458, 240228042, 241921896, 243615012, 245307386, 246999013,
    248689887, 250380004, 252069358, 253757945, 255445758, 257132793, 258819045, 260504509,
    262189179, 263873050, 265556117, 267238376, 268919821, 270600446, 272280247, 273959219,
    275637356, 277314653, 278991106, 280666709, 282341457, 284015345, 285688367, 287360520,
    289031797, 290702194, 292371705, 294040325, 295708050, 297374874, 299040792, 300705800,
    302369891, 304033061, 305695305, 307356618, 309016994, 310676430, 312334919, 313992456,
    315649037, 317304656, 318959309, 320612991, 322265695, 323917418, 325568154, 327217899,
    328866647, 330514393, 332161132, 333806859, 335451570, 337095258, 338737920, 340379550,
    342020143, 343659695, 345298199, 346935652, 348572047, 350207381, 351841648, 353474844,
    355106962, 356737999, 358367950, 359996808, 361624570, 363251230, 364876784, 366501227,
    368124553, 369746757, 371367836, 372987783, 374606593, 376224263, 377840787, 379456160,
    381070376, 382683432, 384295323, 385906042, 387515586, 389123950, 390731128, 392337117,
    393941910, 395545503, 397147891, 398749069, 400349033, 401947777, 403545296, 405141587,
    406736643, 408330460, 409923034, 411514359, 413104430, 414693243, 416280792, 417867074,
    419452082, 421035813, 422618262, 424199423, 425779292, 427357863, 428935133, 430511097,
    432085749, 433659085, 435231099, 436801788, 438371147, 439939170, 441505853, 443071191,
    444635179, 446197813, 447759088, 449318999, 450877541, 452434709, 453990500, 455544907,
    457097927, 458649554, 460199785, 461748613, 463296035, 464842046, 466386640, 467929814,
    469471563, 471011881, 472550765, 474088209, 475624209, 477158760, 478691858, 480223497,
    481753674, 483282383, 484809620, 486335380, 487859659, 489382452, 490903754, 492423560,
    493941867, 495458668, 496973961, 498487740, 500000000, 501510737, 503019947, 504527624,
    506033764, 507538363, 509041416, 510542918, 512042865, 513541252, 515038075, 516533329,
    518027009, 519519112, 521009632, 522498565, 523985906, 525471651, 526955795, 528438335,
    529919264, 531398580, 532876276, 534352349, 535826795, 537299608, 538770785, 540240320,
    541708210, 543174450, 544639035, 546101961, 547563223, 549022818, 550480740, 551936985,
    553391549, 554844427, 556295616, 557745109, 559192903, 560638995, 562083378, 563526049,
    564967003, 566406237, 567843745, 569279523, 570713568, 572145873, 573576436, 575005252,
    576432316, 577857624, 579281172, 580702956, 582122970, 583541211, 584957675, 586372357,
    587785252, 589196357, 590605668, 592013179, 593418887, 594822787, 596224875, 597625147,
    599023599, 600420225, 601815023, 603207988, 604599115, 605988400, 607375840, 608761429,
    610145164, 611527040, 612907054, 614285200, 615661475, 617035875, 618408395, 619779032,
    621147780, 622514637, 623879597, 625242656, 626603811, 627963058, 629320391, 630675807,
    632029303, 633380873, 634730513, 636078220, 637423990, 638767818, 640109699, 641449632,
    642787610, 644123630, 645457688, 646789780, 648119901, 649448048, 650774217, 652098404,
    653420604, 654740814, 656059029, 657375246, 658689460, 660001668, 661311865, 662620048,
    663926213, 665230355, 666532470, 667832555, 669130606, 670426619, 671720589, 673012514,
    674302388, 675590208, 676875970, 678159670, 679441304, 680720869, 681998360, 683273774,
    684547106, 685818353, 687087511, 688354576, 689619544, 690882411, 692143174, 693401828,
    694658370, 695912797, 697165103, 698415285, 699663341, 700909264, 702153053, 703394703,
    704634210, 705871571, 707106781, 708339838, 709570737, 710799474, 712026046, 713250449,
    714472680, 715692734, 716910608, 718126298, 719339800, 720551112, 721760228, 722967146,
    724171861, 725374371, 726574671, 727772758, 728968627, 730162277, 731353702, 732542899,
    733729865, 734914595, 736097087, 737277337, 738455341, 739631095, 740804596, 741975841,
    743144825, 744311546, 745476000, 746638182, 747798090, 748955721, 750111070, 751264134,
    752414909, 753563392, 754709580, 755853469, 756995056, 758134336, 759271307, 760405966,
    761538308, 762668330, 763796029, 764921401, 766044443, 767165152, 768283524, 769399555,
    770513243, 771624583, 772733573, 773840210, 774944489, 776046407, 777145961, 778243149,
    779337965, 780430407, 781520472, 782608157, 783693457, 784776371, 785856893, 786935022,
    788010754, 789084085, 790155012, 791223533, 792289643, 793353340, 794414621, 795473481,
    796529918, 797583929, 798635510, 799684658, 800731371, 801775644, 802817475, 803856861,
    804893797, 805928282, 806960312, 807989884, 809016994, 810041640, 811063819, 812083527,
    813100761, 814115518, 815127796, 816137590, 817144898, 818149717, 819152044, 820151876,
    821149209, 822144041, 823136369, 824126189, 825113498, 826098294, 827080574, 828060335,
    829037573, 830012285, 830984469, 831954122, 832921241, 833885822, 834847863, 835807361,
    836764313, 837718717, 838670568, 839619865, 840566603, 841510782, 842452397, 843391446,
    844327926, 845261833, 846193166, 847121921, 848048096, 848971688, 849892693, 850811109,
    851726934, 852640164, 853550797, 854458830, 855364260, 856267085, 857167301, 858064906,
    858959897, 859852272, 860742027, 861629160, 862513669, 863395551, 864274802, 865151421,
    866025404, 866896749, 867765453, 868631514, 869494930, 870355696, 871213811, 872069272,
    872922077, 873772223, 874619707, 875464527, 876306680, 877146164, 877982975, 878817113,
    879648573, 880477354, 881303452, 882126866, 882947593, 883765630, 884580975, 885393626,
    886203579, 887010833, 887815385, 888617233, 889416373, 890212805, 891006524, 891797530,
    892585818, 893371388, 894154237, 894934362, 895711760, 896486430, 897258370, 898027576,
    898794046, 899557779, 900318771, 901077021, 901832526, 902585284, 903335293, 904082550,
    904827052, 905568799, 906307787, 907044014, 907777479, 908508178, 909236109, 909961271,
    910683661, 911403277, 912120116, 912834177, 913545458, 914253955, 914959668, 915662593,
    916362730, 917060074, 917754626, 918446381, 919135339, 919821497, 920504853, 921185406,
    921863152, 922538089, 923210217, 923879533, 924546034, 925209718, 925870585, 926528631,
    927183855, 927836254, 928485827, 929132572, 929776486, 930417568, 931055816, 931691228,
    932323801, 932953535, 933580426, 934204474, 934825676, 935444031, 936059536, 936672189,
    937281989, 937888935, 938493023, 939094252, 939692621, 940288127, 940880769, 941470545,
    942057453, 942641491, 943222658, 943800952, 944376370, 944948912, 945518576, 946085359,
    946649260, 947210278, 947768410, 948323655, 948876012, 949425478, 949972052, 950515732,
    951056516, 951594404, 952129393, 952661481, 953190668, 953716951, 954240329, 954760800,
    955278362, 955793015, 956304756, 956813584, 957319498, 957822495, 958322574, 958819735,
    959313975, 959805292, 960293686, 960779154, 961261696, 961741310, 962217994, 962691746,
    963162567, 963630453, 964095404, 964557418, 965016494, 965472631, 965925826, 966376079,
    966823389, 967267753, 967709170, 968147640, 968583161, 969015731, 969445350, 969872015,
    970295726, 970716482, 971134280, 971549120, 971961001, 972369920, 972775878, 973178873,
    973578903, 973975967, 974370065, 974761194, 975149354, 975534544, 975916762, 976296007,
    976672278, 977045574, 977415894, 977783237, 978147601, 978508985, 978867389, 979222811,
    979575250, 979924705, 980271175, 980614659, 980955155, 981292664, 981627183, 981958713,
    982287251, 982612797, 982935349, 983254908, 983571471, 983885038, 984195608, 984503180,
    984807753, 985109326, 985407898, 985703469, 985996037, 986285602, 986572162, 986855716,
    987136265, 987413807, 987688341, 987959866, 988228381, 988493887, 988756381, 989015863,
    989272333, 989525789, 989776231, 990023658, 990268069, 990509463, 990747840, 990983200,
    991215540, 991444861, 991671162, 991894443, 992114701, 992331938, 992546152, 992757342,
    992965508, 993170650, 993372766, 993571856, 993767919, 993960955, 994150964, 994337944,
    994521895, 994702817, 994880709, 995055570, 995227400, 995396198, 995561965, 995724698,
    995884399, 996041065, 996194698, 996345296, 996492859, 996637387, 996778878, 996917334,
    997052752, 997185134, 997314477, 997440783, 997564050, 997684279, 997801468, 997915618,
    998026728, 998134798, 998239828, 998341817, 998440764, 998536670, 998629535, 998719357,
    998806137, 998889875, 998970570, 999048222, 999122830, 999194395, 999262916, 999328394,
    999390827, 999450216, 999506560, 999559860, 999610115, 999657325, 999701490, 999742609,
    999780683, 999815712, 999847695, 999876632, 999902524, 999925370, 999945169, 999961923,
    999975631, 999986292, 999993908, 999998477, 1000000000
>>

Sin(d) == IF d <= RightAngle THEN SinTable[d + 1] ELSE SinTable[StraightAngle - d + 1]
Cos(d) == IF d <= RightAngle THEN SinTable[RightAngle - d + 1] ELSE -SinTable[d - RightAngle + 1]

\* Whether the direction (c, s), s > 0, is at least d tenths of a degree from
\* the positive axis, 0 <= d < 1800: sin(angle - d) >= 0, which is
\* s * Cos(d) >= c * Sin(d).
AtLeast(s, c, d) ==
    IF Cos(d) >= 0
    THEN c <= 0 \/ ~ProductLess(s, Cos(d), c, Sin(d))
    ELSE c < 0 /\ ~ProductLess(-c, Sin(d), s, -Cos(d))

RECURSIVE Search(_, _, _, _)
Search(s, c, lo, hi) ==
    IF lo = hi THEN lo
    ELSE LET mid == (lo + hi + 1) \div 2
         IN  IF AtLeast(s, c, mid) THEN Search(s, c, mid, hi)
             ELSE Search(s, c, lo, mid - 1)

\* math.degrees(math.atan2(s, c)) for s >= 0 and (s, c) # (0, 0): the angle in
\* 0..180 degrees of the direction (c, s), in tenths of a degree, rounded down.
Atan2Degrees(s, c) ==
    IF s = 0 THEN (IF c < 0 THEN StraightAngle ELSE 0)
    ELSE Search(s, c, 0, StraightAngle - 1)

----------------------------------------------------------------------------
(* Dictionaries.  A landmark dictionary is a function from the keypoint ids *)
(* it holds to points; a point is a record holding some of the keys x, y    *)
(* and confidence.                                                          *)

Point(x, y, c) == [x |-> x, y |-> y, confidence |-> c]
NoCoordinates(c) == [confidence |-> c]

\* d.get(key): None when the key is absent.
Get(d, key) == IF key \in DOMAIN d THEN Some(d[key]) ELSE None

\* Truth value of an optional dictionary: None and {} are false.
Truthy(opt) == opt # None /\ DOMAIN opt[1] # {}

\* point.get("confidence", 0) of a point that is not None.
Score(opt) == IF "confidence" \in DOMAIN opt[1] THEN opt[1].confidence ELSE 0

\* point["x"] and point["y"] raise KeyError when the key is absent.
HasXY(opt) == {"x", "y"} \subseteq DOMAIN opt[1]
X(opt) == 4 * opt[1].x
Y(opt) == 4 * opt[1].y

----------------------------------------------------------------------------
(* Results.                                                                 *)

MsgNoPose == [text |-> "could not detect the posture", shown |-> None]
MsgNoShoulders == [text |-> "could not detect the shoulders", shown |-> None]
MsgSlouchedAngle(angle) ==
    [text |-> "slouched, correct your posture! (angle: %.1f deg)", shown |-> Some(angle)]
MsgGoodAngle(angle) ==
    [text |-> "posture is good (angle: %.1f deg)", shown |-> Some(angle)]
MsgSlouchedDiff(pct) ==
    [text |-> "slouched, correct your posture! (neck-shoulder difference: %.1f%%)",
     shown |-> Some(pct)]
MsgGoodDiff(pct) ==
    [text |-> "posture is good (neck-shoulder difference: %.1f%%)", shown |-> Some(pct)]

\* The ":.1f" formatting of n / (10 * per): tenths, rounded to nearest, a tie
\* to the even digit.
OneDecimal(n, per) ==
    LET q == n \div per
        r == 2 * (n % per)
    IN  IF r > per \/ (r = per /\ q % 2 = 1) THEN q + 1 ELSE q

Result(is_slouched, confidence, angle, message) ==
    [is_slouched |-> is_slouched, confidence |-> confidence,
     angle |-> angle, message |-> message]

Return(line, value) == [raised |-> FALSE, line |-> line, value |-> Some(value)]
Raise(line) == [raised |-> TRUE, line |-> line, value |-> None]

----------------------------------------------------------------------------
(* PostureAnalyzer.calculate_angle: the angle at point2, None when one of   *)
(* the two vectors has length zero.  cos_angle = dot_product / (norm1 *     *)
(* norm2) and norm1^2 * norm2^2 = dot_product^2 + cross^2, so the arccosine *)
(* is the angle of the direction (dot_product, |cross|); the clamp of       *)
(* cos_angle to [-1, 1] only guards float overshoot.  The norms are kept    *)
(* squared: the code uses them for the zero test and in the quotient only.  *)

\* calculate_angle with vec2 taken from point1 instead of the vertex point2.
calculate_angle_from_point1(point1, point2, point3) ==
    LET vec1 == <<point1[1] - point2[1], point1[2] - point2[2]>>
        vec2 == <<point3[1] - point1[1], point3[2] - point1[2]>>
        dot_product == vec1[1] * vec2[1] + vec1[2] * vec2[2]
        norm1sq == vec1[1] * vec1[1] + vec1[2] * vec1[2]
        norm2sq == vec2[1] * vec2[1] + vec2[2] * vec2[2]
        cross == vec1[1] * vec2[2] - vec1[2] * vec2[1]
    IN  IF norm1sq = 0 \/ norm2sq = 0 THEN None
        ELSE Some(Atan2Degrees(Abs(cross), dot_product))

calculate_angle(point1, point2, point3) ==
    LET vec1 == <<point1[1] - point2[1], point1[2] - point2[2]>>
        vec2 == <<point3[1] - point2[1], point3[2] - point2[2]>>
        dot_product == vec1[1] * vec2[1] + vec1[2] * vec2[2]
        norm1sq == vec1[1] * vec1[1] + vec1[2] * vec1[2]
        norm2sq == vec2[1] * vec2[1] + vec2[2] * vec2[2]
        cross == vec1[1] * vec2[2] - vec1[2] * vec2[1]
    IN  IF norm1sq = 0 \/ norm2sq = 0 THEN None
        ELSE Some(Atan2Degrees(Abs(cross), dot_product))

----------------------------------------------------------------------------
(* PostureAnalyzer.analyze_posture.                                         *)

\* HipSlouched with <= for <.
HipSlouchedNonStrict(self, angle) == angle <= StraightAngle - self.threshold_angle

\* Line 139: the verdict of the hip-based branch.
HipSlouched(self, angle) == angle < StraightAngle - self.threshold_angle

\* HipConfidence without the min(1.0, ...).
HipConfidenceUnclamped(self, angle, is_slouched) ==
    IF is_slouched
    THEN ((StraightAngle - self.threshold_angle - angle) * One) \div HipWindow
    ELSE ((angle - (StraightAngle - self.threshold_angle)) * One) \div HipWindow

\* HipConfidence with the 15-degree window of the other branch.
HipConfidenceNarrow(self, angle, is_slouched) ==
    IF is_slouched
    THEN Min(One, ((StraightAngle - self.threshold_angle - angle) * One) \div AngleWindow)
    ELSE Min(One, ((angle - (StraightAngle - self.threshold_angle)) * One) \div AngleWindow)

\* Lines 142-145: the confidence of the hip-based branch.
HipConfidence(self, angle, is_slouched) ==
    IF is_slouched
    THEN Min(One, ((StraightAngle - self.threshold_angle - angle) * One) \div HipWindow)
    ELSE Min(One, ((angle - (StraightAngle - self.threshold_angle)) * One) \div HipWindow)

\* Lines 139-157: the dictionary the hip-based branch returns.
HipVerdict(self, angle) ==
    LET is_slouched == HipSlouched(self, angle)
        confidence == HipConfidence(self, angle, is_slouched)
        message == IF is_slouched THEN MsgSlouchedAngle(angle) ELSE MsgGoodAngle(angle)
    IN  Result(is_slouched, confidence, Some(angle), message)

\* ShoulderOnlySlouched with <= for <.
ShoulderOnlySlouchedNonStrict(y_diff, angle) ==
    (y_diff <= -YDiffThreshold) \/ (angle > AngleTrigger)

\* Lines 190-195: the verdict of the shoulder-only branch.
ShoulderOnlySlouched(y_diff, angle) ==
    (y_diff < -YDiffThreshold) \/ (angle > AngleTrigger)

\* ShoulderOnlyConfidence without the angle's share.
ShoulderOnlyConfidenceDiffOnly(y_diff, angle, is_slouched) ==
    IF is_slouched
    THEN Min(One, (Abs(y_diff) * One) \div YDiffFull)
    ELSE Min(One, ((YDiffThreshold + y_diff) * One) \div YDiffWindow)

\* Lines 198-206: its confidence.
ShoulderOnlyConfidence(y_diff, angle, is_slouched) ==
    IF is_slouched
    THEN LET by_diff == Min(One, (Abs(y_diff) * One) \div YDiffFull)
         IN  IF angle > AngleTrigger
             THEN Max(by_diff, Min(One, ((angle - AngleTrigger) * One) \div AngleWindow))
             ELSE by_diff
    ELSE Min(One, ((YDiffThreshold + y_diff) * One) \div YDiffWindow)

\* Lines 166-220: the shoulder-only branch.
ShoulderOnly(shoulder_mid, neck_estimate) ==
    LET neck_to_shoulder_vec == <<shoulder_mid[1] - neck_estimate[1],
                                  shoulder_mid[2] - neck_estimate[2]>>
        angle == IF neck_to_shoulder_vec[1] = 0 THEN RightAngle
                 ELSE Atan2Degrees(Abs(neck_to_shoulder_vec[2]), Abs(neck_to_shoulder_vec[1]))
        y_diff == neck_estimate[2] - shoulder_mid[2]
        is_slouched == ShoulderOnlySlouched(y_diff, angle)
        confidence == ShoulderOnlyConfidence(y_diff, angle, is_slouched)
        position_diff_pct == OneDecimal(Abs(y_diff), 40)
        message == IF is_slouched THEN MsgSlouchedDiff(position_diff_pct)
                   ELSE MsgGoodDiff(position_diff_pct)
    IN  Return(215, Result(is_slouched, confidence, Some(angle), message))

\* Lines 105-108.
ShoulderMid(left_shoulder, right_shoulder) ==
    <<(X(left_shoulder) + X(right_shoulder)) \div 2,
      (Y(left_shoulder) + Y(right_shoulder)) \div 2>>

\* Line 111: whether the nose enters the neck estimate.
NoseUsed(nose) == Truthy(nose) /\ Score(nose) > ScoreThreshold

\* NeckEstimate with the fallback offset applied to x instead of y.
NeckEstimateSideways(nose, shoulder_mid) ==
    IF NoseUsed(nose)
    THEN <<(X(nose) + shoulder_mid[1]) \div 2, (Y(nose) + shoulder_mid[2]) \div 2>>
    ELSE <<shoulder_mid[1] - NeckOffset, shoulder_mid[2]>>

\* Lines 111-118.
NeckEstimate(nose, shoulder_mid) ==
    IF NoseUsed(nose)
    THEN <<(X(nose) + shoulder_mid[1]) \div 2, (Y(nose) + shoulder_mid[2]) \div 2>>
    ELSE <<shoulder_mid[1], shoulder_mid[2] - NeckOffset>>

\* Lines 121-126: whether the hip-based branch is entered.
HipsUsed(left_hip, right_hip) ==
    /\ Truthy(left_hip)
    /\ Score(left_hip) >= ScoreThreshold
    /\ Truthy(right_hip)
    /\ Score(right_hip) >= ScoreThreshold

\* Lines 127-130.
HipMid(left_hip, right_hip) ==
    <<(X(left_hip) + X(right_hip)) \div 2, (Y(left_hip) + Y(right_hip)) \div 2>>

\* Lines 104-220: after the shoulder gate.  A landmark whose coordinates
\* are read and absent raises KeyError.
AfterGate(self, left_shoulder, right_shoulder, left_hip, right_hip, nose) ==
    IF ~HasXY(left_shoulder) \/ ~HasXY(right_shoulder) THEN Raise(106)
    ELSE IF NoseUsed(nose) /\ ~HasXY(nose) THEN Raise(113)
    ELSE
    LET shoulder_mid == ShoulderMid(left_shoulder, right_shoulder)
        neck_estimate == NeckEstimate(nose, shoulder_mid)
    IN  IF HipsUsed(left_hip, right_hip)
        THEN IF ~HasXY(left_hip) \/ ~HasXY(right_hip) THEN Raise(128)
             ELSE LET hip_mid == HipMid(left_hip, right_hip)
                      angle == calculate_angle(neck_estimate, shoulder_mid, hip_mid)
                  IN  IF angle # None
                      THEN Return(152, HipVerdict(self, angle[1]))
                      ELSE ShoulderOnly(shoulder_mid, neck_estimate)
        ELSE ShoulderOnly(shoulder_mid, neck_estimate)

\* ShoulderGateFails with <= for <: a score equal to the threshold fails.
ShoulderGateFailsAtThreshold(left_shoulder, right_shoulder) ==
    \/ ~Truthy(left_shoulder)
    \/ Score(left_shoulder) <= ScoreThreshold
    \/ ~Truthy(right_shoulder)
    \/ Score(right_shoulder) <= ScoreThreshold

\* The shoulder gate, lines 91-96.
ShoulderGateFails(left_shoulder, right_shoulder) ==
    \/ ~Truthy(left_shoulder)
    \/ Score(left_shoulder) < ScoreThreshold
    \/ ~Truthy(right_shoulder)
    \/ Score(right_shoulder) < ScoreThreshold

\* NoPoseResult carrying the text of the shoulder gate.
NoPoseResultShoulderText == Result(FALSE, 0, None, MsgNoShoulders)

\* Lines 76-81 and 97-102: the two failure dictionaries.
NoPoseResult == Result(FALSE, 0, None, MsgNoPose)
NoShouldersResult == Result(FALSE, 0, None, MsgNoShoulders)

analyze_posture(self, arg) ==
    IF ~Truthy(arg)
    THEN Return(76, NoPoseResult)
    ELSE
    LET d == arg[1]
        left_shoulder == Get(d, LEFT_SHOULDER)
        right_shoulder == Get(d, RIGHT_SHOULDER)
        left_hip == Get(d, LEFT_HIP)
        right_hip == Get(d, RIGHT_HIP)
        nose == Get(d, NOSE)
    IN  IF ShoulderGateFails(left_shoulder, right_shoulder)
        THEN Return(97, NoShouldersResult)
        ELSE AfterGate(self, left_shoulder, right_shoulder, left_hip, right_hip, nose)

----------------------------------------------------------------------------
(* The inputs of a run: the configurations and the landmark sets a caller   *)
(* may pass.  Coordinates are in input units (1/10000), scores in           *)
(* hundredths.  Every landmark may be absent (None), and may be a           *)
(* dictionary that lacks its coordinates.                                   *)

Thresholds == {DefaultThreshold, 900}

ShoulderScores == {20, 30, 90}
HipScores == {20, 30}
NoseScores == {20, 30, 90}

LeftShoulderAt == {<<4000, 5000>>}
RightShoulderAt == {<<6000, 5000>>, <<6000, 5400>>}
LeftHipAt == {<<4500, 8000>>, <<4000, 5000>>}
RightHipAt == {<<5500, 8000>>, <<6000, 5000>>}
\* The nose lies on a grid around the shoulder midpoint or at one of the
\* places that put the angle and the height difference at a boundary.
MaxGrid == 2
NoseAt == {<<5000 + 300 * i, 5000 - 360 * j>> : i, j \in 0..MaxGrid}
            \cup {<<5400, 5000>>, <<5400, 4700>>, <<5400, 4698>>, <<5700, 4000>>,
                  <<5702, 4000>>, <<5000, 5200>>, <<5020, 5200>>, <<5000, 4000>>}

Landmarks(places, scores) ==
    {None, Some(NoCoordinates(90))}
        \cup {Some(Point(p[1], p[2], c)) : p \in places, c \in scores}

\* The dictionary holding the given landmarks, and LEFT_EAR when others is
\* true (a keypoint the analysis does not read).
Dict(left_shoulder, right_shoulder, left_hip, right_hip, nose, others) ==
    LET at == [k \in {NOSE, LEFT_EAR, LEFT_SHOULDER, RIGHT_SHOULDER, LEFT_HIP, RIGHT_HIP} |->
                  CASE k = NOSE -> nose
                    [] k = LEFT_EAR -> IF others THEN Some(Point(4800, 4200, 90)) ELSE None
                    [] k = LEFT_SHOULDER -> left_shoulder
                    [] k = RIGHT_SHOULDER -> right_shoulder
                    [] k = LEFT_HIP -> left_hip
                    [] k = RIGHT_HIP -> right_hip]
        held == {k \in DOMAIN at : at[k] # None}
    IN  [k \in held |-> at[k][1]]

----------------------------------------------------------------------------
(* PoseDetector.__init__ (src/src/pose_detector.py, lines 34-90): the model *)
(* is loaded from the first of three URLs that hub.load accepts.            *)

ModelNames == {"movenet_lightning", "movenet_thunder", "movenet"}

\* Lines 43-51.
hub_model_name(name) == IF name = "movenet_thunder" THEN "thunder" ELSE "lightning"
InputSize(name) == IF name = "movenet_thunder" THEN 256 ELSE 192

\* A URL of the model: .../singlepose/<hub_model_name><version>.
Url(hub_name, version) == [hub_model_name |-> hub_name, version |-> version]
UrlVersions == {"/4", "/3", ""}

\* The list with version 3 ahead of version 4.
model_urls_version3_first(hub_name) ==
    <<Url(hub_name, "/3"), Url(hub_name, "/4"), Url(hub_name, "")>>

\* Lines 54-58.
model_urls(hub_name) ==
    <<Url(hub_name, "/4"), Url(hub_name, "/3"), Url(hub_name, "")>>

\* What hub.load does with a URL: it raises an Exception, or returns an
\* object that is callable, has "signatures", both or neither.
LoadFails == [raises |-> TRUE, callable |-> FALSE, signatures |-> FALSE]
LoadOutcomes ==
    {LoadFails} \cup {[raises |-> FALSE, callable |-> c, signatures |-> s] : c, s \in BOOLEAN}

\* The object hub.load returned.
Loaded(url, outcome) ==
    [url |-> url, callable |-> outcome.callable, signatures |-> outcome.signatures]

\* No detector is being constructed: the state of the detector variables
\* while the other parts of the program are examined.
NoDetector ==
    /\ model_name = "movenet_lightning"
    /\ hub_load = [v \in UrlVersions |-> LoadFails]
    /\ input_size = 0
    /\ model = None
    /\ model_callable = None
    /\ tried = <<>>
    /\ load_pc = "new"

----------------------------------------------------------------------------
(* The instances other callers hold and the connections of the WebSocket    *)
(* endpoint, at rest.                                                       *)

Instances == {1, 2}
Conns == {1, 2}

NoCalls ==
    /\ analyzers = [i \in Instances |-> [threshold_angle |-> DefaultThreshold]]
    /\ calls = <<>>

NoConnections ==
    /\ ws_pc = [c \in Conns |-> "closed"]
    /\ ws_received = [c \in Conns |-> <<>>]
    /\ ws_landmarks = [c \in Conns |-> None]
    /\ ws_result = [c \in Conns |-> None]
    /\ ws_sent = [c \in Conns |-> <<>>]

\* No call of the single-caller loop is in progress.
PostureIdle ==
    /\ landmarks_dict = None
    /\ pc = "idle"
    /\ result = None
    /\ return_line = 0

----------------------------------------------------------------------------
(* The state machine: a caller holding one PostureAnalyzer passes it one    *)
(* landmark set per frame.                                                  *)

Init ==
    /\ threshold_angle \in Thresholds
    /\ landmarks_dict = None
    /\ pc = "idle"
    /\ result = None
    /\ return_line = 0
    /\ NoDetector
    /\ NoCalls
    /\ NoConnections

\* The caller obtains the frame's landmarks and calls analyze_posture.
Call ==
    /\ pc = "idle"
    /\ \E arg \in {None} \cup
            {Some(Dict(left_shoulder, right_shoulder, left_hip, right_hip, nose, others)) :
                left_shoulder \in Landmarks(LeftShoulderAt, ShoulderScores),
                right_shoulder \in Landmarks(RightShoulderAt, ShoulderScores),
                left_hip \in Landmarks(LeftHipAt, HipScores),
                right_hip \in Landmarks(RightHipAt, HipScores),
                nose \in Landmarks(NoseAt, NoseScores),
                others \in BOOLEAN} :
          landmarks_dict' = arg
    /\ pc' = "called"
    /\ UNCHANGED <<threshold_angle, result, return_line>>
    /\ UNCHANGED <<load_vars, calls_vars, ws_vars>>

\* The call runs to its return or raise.
AnalyzePosture ==
    /\ pc = "called"
    /\ LET r == analyze_posture([threshold_angle |-> threshold_angle], landmarks_dict)
       IN  /\ pc' = IF r.raised THEN "raised" ELSE "returned"
           /\ result' = r.value
           /\ return_line' = r.line
    /\ UNCHANGED <<threshold_angle, landmarks_dict>>
    /\ UNCHANGED <<load_vars, calls_vars, ws_vars>>

\* The caller has used the result and goes on to the next frame.
NextFrame ==
    /\ pc = "returned"
    /\ pc' = "idle"
    /\ landmarks_dict' = None
    /\ result' = None
    /\ return_line' = 0
    /\ UNCHANGED threshold_angle
    /\ UNCHANGED <<load_vars, calls_vars, ws_vars>>

Next == Call \/ AnalyzePosture \/ NextFrame

Spec == Init /\ [][Next]_vars

----------------------------------------------------------------------------
(* The construction of a PoseDetector, one step per call of hub.load.       *)

InitLoad ==
    /\ threshold_angle = DefaultThreshold
    /\ PostureIdle
    /\ NoCalls
    /\ NoConnections
    /\ model_name \in ModelNames
    /\ hub_load \in [UrlVersions -> LoadOutcomes]
    /\ input_size = 0
    /\ model = None
    /\ model_callable = None
    /\ tried = <<>>
    /\ load_pc = "new"

\* Lines 43-61: the input size, and both model fields None.
Construct ==
    /\ load_pc = "new"
    /\ input_size' = InputSize(model_name)
    /\ model' = None
    /\ model_callable' = None
    /\ load_pc' = "loop"
    /\ UNCHANGED <<model_name, hub_load, tried>>
    /\ UNCHANGED <<posture_vars, calls_vars, ws_vars>>

\* Lines 62-85: one iteration of the loop over model_urls.  An Exception of
\* hub.load goes on to the next URL (the loop ends after the last one); a
\* loaded object is stored and the loop is left.
LoadModel ==
    /\ load_pc = "loop"
    /\ LET urls == model_urls(hub_model_name(model_name))
           model_url == urls[Len(tried) + 1]
           outcome == hub_load[model_url.version]
           loaded_model == Some(Loaded(model_url, outcome))
       IN  /\ tried' = Append(tried, model_url)
           /\ IF outcome.raises
              THEN /\ UNCHANGED <<model, model_callable>>
                   /\ load_pc' = IF Len(tried) + 1 = Len(urls) THEN "check" ELSE "loop"
              ELSE /\ IF outcome.callable
                      THEN model_callable' = loaded_model /\ model' = None
                      ELSE IF outcome.signatures
                      THEN model' = loaded_model /\ model_callable' = None
                      ELSE model_callable' = loaded_model /\ model' = None
                   /\ load_pc' = "check"
    /\ UNCHANGED <<model_name, hub_load, input_size>>
    /\ UNCHANGED <<posture_vars, calls_vars, ws_vars>>

\* Lines 87-90: RuntimeError when nothing was loaded.
CheckLoaded ==
    /\ load_pc = "check"
    /\ load_pc' = IF model = None /\ model_callable = None THEN "raised" ELSE "constructed"
    /\ UNCHANGED <<model_name, hub_load, input_size, model, model_callable, tried>>
    /\ UNCHANGED <<posture_vars, calls_vars, ws_vars>>

NextLoad == Construct \/ LoadModel \/ CheckLoaded

SpecLoad == InitLoad /\ [][NextLoad]_vars

----------------------------------------------------------------------------
(* Several PostureAnalyzer instances (web_app.py line 26, main.py line 24)  *)
(* and the calls made on them, in any order.                                *)

MaxCalls == 3

\* The arguments of the calls: None, the empty dictionary, shoulders below
\* the threshold, and reliable shoulders with a nose to the side or above,
\* with and without hips.
CallInputs ==
    {None, Some(Dict(None, None, None, None, None, FALSE)),
     Some(Dict(Some(Point(4000, 5000, 20)), Some(Point(6000, 5000, 90)),
               Some(Point(4500, 8000, 90)), Some(Point(5500, 8000, 90)),
               Some(Point(5400, 5000, 90)), TRUE))}
        \cup {Some(Dict(Some(Point(4000, 5000, 90)), Some(Point(6000, 5000, 90)),
                        left_hip, Some(Point(5500, 8000, 90)), nose, TRUE)) :
                 left_hip \in {None, Some(Point(4500, 8000, 90))},
                 nose \in {Some(Point(5400, 5000, 90)), Some(Point(5300, 4280, 90))}}

InitCalls ==
    /\ threshold_angle = DefaultThreshold
    /\ PostureIdle
    /\ NoDetector
    /\ NoConnections
    /\ analyzers \in [Instances -> [threshold_angle : Thresholds]]
    /\ calls = <<>>

\* A call whose outcome also depends on how many calls came before it.
CallAnalyzeCounting(i, arg) ==
    /\ Len(calls) < MaxCalls
    /\ calls' = Append(calls,
           [instance |-> i,
            threshold_angle |-> analyzers[i].threshold_angle,
            landmarks |-> arg,
            outcome |-> analyze_posture(
                [threshold_angle |-> analyzers[i].threshold_angle + 550 * (Len(calls) % 2)],
                arg)])
    /\ UNCHANGED analyzers
    /\ UNCHANGED <<posture_vars, load_vars, ws_vars>>

\* analyze_posture(arg) on instance i, lines 61-220: it reads
\* self.threshold_angle and its argument and assigns to neither.
CallAnalyze(i, arg) ==
    /\ Len(calls) < MaxCalls
    /\ calls' = Append(calls,
           [instance |-> i,
            threshold_angle |-> analyzers[i].threshold_angle,
            landmarks |-> arg,
            outcome |-> analyze_posture(analyzers[i], arg)])
    /\ UNCHANGED analyzers
    /\ UNCHANGED <<posture_vars, load_vars, ws_vars>>

NextCalls == \E i \in Instances, arg \in CallInputs : CallAnalyze(i, arg)

SpecCalls == InitCalls /\ [][NextCalls]_vars

----------------------------------------------------------------------------
(* websocket_endpoint (src/src/web_app.py, lines 293-322): one handler per  *)
(* connection, all of them calling the one posture_analyzer that            *)
(* init_modules built with threshold_angle 35.0.                            *)

MaxMessages == 3

\* The "data" of a frame message: a string that is valid base64 or not,
\* whose bytes are an image or not (None).  An image stands for the
\* landmarks pose_detector.detect and get_landmarks_dict find in it.
FrameData(valid_base64, image) == [valid_base64 |-> valid_base64, image |-> image]

\* The landmarks of the images: every keypoint is present, as
\* get_landmarks_dict builds them; shoulders below the threshold in one, a
\* nose to the side of reliable shoulders and hips in the other.
FrameLandmarks ==
    {Dict(Some(Point(4000, 5000, left_score)), Some(Point(6000, 5000, 90)),
          Some(Point(4500, 8000, 90)), Some(Point(5500, 8000, 90)),
          Some(Point(5400, 5000, 90)), TRUE) : left_score \in {20, 90}}

\* The texts a client sends: not JSON, or a JSON object with or without
\* "type" and "data".
NotJson == [is_json |-> FALSE]
JsonText(object) == [is_json |-> TRUE, object |-> object]
WsTexts ==
    {NotJson, JsonText([type |-> "ping"]), JsonText([data |-> FrameData(TRUE, None)]),
     JsonText([type |-> "frame"]),
     JsonText([type |-> "frame", data |-> FrameData(FALSE, None)]),
     JsonText([type |-> "frame", data |-> FrameData(TRUE, None)])}
        \cup {JsonText([type |-> "frame", data |-> FrameData(TRUE, Some(d))]) :
                 d \in FrameLandmarks}

\* One pass through the loop body from receive_text to the call of
\* analyze_posture, lines 300-316: where the handler goes next, the line
\* of the exception if one is raised, and the landmarks of the frame.
Step(next, line, landmarks) == [next |-> next, line |-> line, landmarks |-> landmarks]
HandleText(data) ==
    IF ~data.is_json
    THEN Step("raised", 301, None)                     \* json.loads raises
    ELSE
    LET message == data.object
    IN  IF Get(message, "type") # Some("frame")
        THEN Step("receive", 303, None)                \* not a frame: next message
        ELSE IF "data" \notin DOMAIN message
        THEN Step("raised", 305, None)                 \* KeyError
        ELSE IF ~message.data.valid_base64
        THEN Step("raised", 305, None)                 \* b64decode raises binascii.Error
        ELSE LET frame == message.data.image           \* cv2.imdecode
             IN  IF frame = None
                 THEN Step("receive", 310, None)       \* continue
                 ELSE Step("analyze", 316, frame)

\* json.dumps as send_json applies it to a result: the keys as they are, a
\* bool as a JSON boolean, a float as a number, None as null, a str as a
\* string.
JsonBoolean(v) == [json_type |-> "boolean", value |-> v]
JsonNumber(v) == [json_type |-> "number", value |-> v]
JsonString(v) == [json_type |-> "string", value |-> v]
JsonNull == [json_type |-> "null"]
JsonField(key, v) ==
    CASE key = "is_slouched" -> JsonBoolean(v)
      [] key = "confidence" -> JsonNumber(v)
      [] key = "angle" -> IF v = None THEN JsonNull ELSE JsonNumber(v[1])
      [] key = "message" -> JsonString(v)

\* The payload with a transport field added to the result.
ToJsonWithFps(d) ==
    [key \in DOMAIN d \cup {"fps"} |->
        IF key = "fps" THEN JsonNumber(30) ELSE JsonField(key, d[key])]

ToJson(d) == [key \in DOMAIN d |-> JsonField(key, d[key])]

InitWs ==
    /\ threshold_angle = DefaultThreshold              \* init_modules, line 26
    /\ PostureIdle
    /\ NoDetector
    /\ NoCalls
    /\ ws_pc = [c \in Conns |-> "connecting"]
    /\ ws_received = [c \in Conns |-> <<>>]
    /\ ws_landmarks = [c \in Conns |-> None]
    /\ ws_result = [c \in Conns |-> None]
    /\ ws_sent = [c \in Conns |-> <<>>]

Received == Len(ws_received[1]) + Len(ws_received[2])

\* Line 296: the connection is accepted and the loop entered.
WsAccept(c) ==
    /\ ws_pc[c] = "connecting"
    /\ ws_pc' = [ws_pc EXCEPT ![c] = "receive"]
    /\ UNCHANGED <<ws_received, ws_landmarks, ws_result, ws_sent>>
    /\ UNCHANGED <<posture_vars, load_vars, calls_vars>>

\* Lines 300-316: a text arrives and is handled up to the call of
\* analyze_posture.
WsReceive(c) ==
    /\ ws_pc[c] = "receive"
    /\ Received < MaxMessages
    /\ \E data \in WsTexts :
          LET step == HandleText(data)
          IN  /\ ws_received' = [ws_received EXCEPT ![c] = Append(@, data)]
              /\ ws_pc' = [ws_pc EXCEPT ![c] = step.next]
              /\ ws_landmarks' = IF step.next = "analyze"
                                 THEN [ws_landmarks EXCEPT ![c] = Some(step.landmarks[1])]
                                 ELSE ws_landmarks
    /\ UNCHANGED <<ws_result, ws_sent>>
    /\ UNCHANGED <<posture_vars, load_vars, calls_vars>>

\* The call of line 319 that also adapts the shared threshold to the verdict.
WsAnalyzeAdapting(c) ==
    /\ ws_pc[c] = "analyze"
    /\ LET r == analyze_posture([threshold_angle |-> threshold_angle], ws_landmarks[c])
       IN  /\ ws_pc' = [ws_pc EXCEPT ![c] = IF r.raised THEN "raised" ELSE "send"]
           /\ ws_result' = IF r.raised THEN ws_result ELSE [ws_result EXCEPT ![c] = r.value]
           /\ threshold_angle' = IF ~r.raised /\ r.value[1].is_slouched
                                 THEN RightAngle ELSE threshold_angle
    /\ UNCHANGED <<ws_received, ws_landmarks, ws_sent>>
    /\ UNCHANGED <<landmarks_dict, pc, result, return_line, load_vars, calls_vars>>

\* Line 319: posture_result = posture_analyzer.analyze_posture(landmarks_dict)
\* on the shared instance.  The handlers run on one event loop; the call is
\* a step of its own, so that the calls of the connections overlap in every
\* order, the event loop's among them.
WsAnalyze(c) ==
    /\ ws_pc[c] = "analyze"
    /\ LET r == analyze_posture([threshold_angle |-> threshold_angle], ws_landmarks[c])
       IN  /\ ws_pc' = [ws_pc EXCEPT ![c] = IF r.raised THEN "raised" ELSE "send"]
           /\ ws_result' = IF r.raised THEN ws_result ELSE [ws_result EXCEPT ![c] = r.value]
    /\ UNCHANGED <<ws_received, ws_landmarks, ws_sent>>
    /\ UNCHANGED <<posture_vars, load_vars, calls_vars>>

\* Line 322: await websocket.send_json(posture_result), then the next pass.
WsSend(c) ==
    /\ ws_pc[c] = "send"
    /\ ws_sent' = [ws_sent EXCEPT ![c] = Append(@, ToJson(ws_result[c][1]))]
    /\ ws_pc' = [ws_pc EXCEPT ![c] = "receive"]
    /\ UNCHANGED <<ws_received, ws_landmarks, ws_result>>
    /\ UNCHANGED <<posture_vars, load_vars, calls_vars>>

\* Line 300: the client has closed the connection and receive_text raises
\* WebSocketDisconnect.
WsDisconnect(c) ==
    /\ ws_pc[c] = "receive"
    /\ ws_pc' = [ws_pc EXCEPT ![c] = "closed"]
    /\ UNCHANGED <<ws_received, ws_landmarks, ws_result, ws_sent>>
    /\ UNCHANGED <<posture_vars, load_vars, calls_vars>>

NextWs ==
    \E c \in Conns :
        WsAccept(c) \/ WsReceive(c) \/ WsAnalyze(c) \/ WsSend(c) \/ WsDisconnect(c)

SpecWs == InitWs /\ [][NextWs]_vars

----------------------------------------------------------------------------
(* The call in progress, read from the state.                               *)

Done == pc \in {"returned", "raised"}
Returned == pc = "returned"
Res == result[1]

\* The landmark set is empty or absent.
EmptyInput == landmarks_dict = None \/ DOMAIN landmarks_dict[1] = {}

\* The landmark the call was given under an id, None when it holds none.
In(id) == IF landmarks_dict = None THEN None ELSE Get(landmarks_dict[1], id)

\* The data model: each present point has x, y and a score.
Conforming ==
    landmarks_dict # None =>
        \A id \in DOMAIN landmarks_dict[1] :
            {"x", "y", "confidence"} \subseteq DOMAIN landmarks_dict[1][id]

\* A landmark is present with its coordinates and a score at or above the threshold.
Reliable(id) ==
    /\ In(id) # None
    /\ {"x", "y", "confidence"} \subseteq DOMAIN In(id)[1]
    /\ In(id)[1].confidence >= ScoreThreshold

\* A landmark is absent or has a score below the threshold.
MissingOrUnreliable(id) ==
    \/ In(id) = None
    \/ "confidence" \notin DOMAIN In(id)[1]
    \/ In(id)[1].confidence < ScoreThreshold

ShouldersReliable == Reliable(LEFT_SHOULDER) /\ Reliable(RIGHT_SHOULDER)
HipsReliable == Reliable(LEFT_HIP) /\ Reliable(RIGHT_HIP)

InShoulderMid == ShoulderMid(In(LEFT_SHOULDER), In(RIGHT_SHOULDER))
InNeck == NeckEstimate(In(NOSE), InShoulderMid)
InHipMid == HipMid(In(LEFT_HIP), In(RIGHT_HIP))
InYDiff == InNeck[2] - InShoulderMid[2]

\* One of the two vectors of the hip-based angle has length zero.
ZeroVector == InNeck = InShoulderMid \/ InHipMid = InShoulderMid

\* The failure result: not slouched, confidence 0.0, no angle, a message.
IsFailure(r) ==
    /\ r.is_slouched = FALSE
    /\ r.confidence = 0
    /\ r.angle = None
    /\ r.message.text # ""

----------------------------------------------------------------------------
(* The claims.                                                              *)

\* C1: for every landmark set conforming to the data model the call returns a
\* result instead of raising, the message is not empty, and every failure
\* outcome (empty input, shoulders missing or unreliable, angle not
\* computable) is the failure result.
C1_FailuresAreResults ==
    (Done /\ Conforming) =>
        /\ pc = "returned"
        /\ Res.message.text # ""
        /\ ( \/ EmptyInput
             \/ MissingOrUnreliable(LEFT_SHOULDER)
             \/ MissingOrUnreliable(RIGHT_SHOULDER)
             \/ (HipsReliable /\ ZeroVector) ) => IsFailure(Res)

\* C2: on every return path the returned confidence is between 0 and 1.
C2_ConfidenceBounds == Returned => (0 <= Res.confidence /\ Res.confidence <= One)

\* C2, its case: the hip-based branch returns an angle more than 30 degrees
\* past the boundary, where the ramp exceeds 1 before the clamp.
C2_Witness ==
    /\ Returned
    /\ return_line = 152
    /\ Res.angle[1] - (StraightAngle - threshold_angle) > HipWindow
    /\ Res.confidence = One

\* C3 as stated: a shoulder absent or below the score threshold gives the
\* failure result with the shoulders-not-detected message whatever the other
\* landmarks are, and two shoulders at or above the threshold pass the gate.
C3_Original ==
    Done =>
        IF MissingOrUnreliable(LEFT_SHOULDER) \/ MissingOrUnreliable(RIGHT_SHOULDER)
        THEN pc = "returned" /\ IsFailure(Res) /\ Res.message = MsgNoShoulders
        ELSE return_line \notin {76, 97}

\* C3, amended: the same for every landmark set that is not empty (the empty
\* or absent set gets the no-pose message before the gate is reached).
C3_ShoulderGate ==
    (Done /\ ~EmptyInput) =>
        IF MissingOrUnreliable(LEFT_SHOULDER) \/ MissingOrUnreliable(RIGHT_SHOULDER)
        THEN pc = "returned" /\ IsFailure(Res) /\ Res.message = MsgNoShoulders
        ELSE return_line \notin {76, 97}

\* C3, its case: one shoulder below the threshold, the other shoulder, the
\* nose and both hips reliable, and the call has returned.
C3_Witness ==
    /\ Returned
    /\ In(LEFT_SHOULDER) # None
    /\ MissingOrUnreliable(LEFT_SHOULDER)
    /\ Reliable(RIGHT_SHOULDER)
    /\ Reliable(NOSE)
    /\ HipsReliable
    /\ return_line = 97

\* C4: an empty or absent landmark set returns at once the failure result
\* with the no-pose message, which is not the shoulders-not-detected one.
C4_EmptyInput ==
    (Done /\ EmptyInput) =>
        /\ pc = "returned"
        /\ return_line = 76
        /\ IsFailure(Res)
        /\ Res.message = MsgNoPose
        /\ Res.message # NoShouldersResult.message

\* C4, its case: the call was given the empty dictionary and has returned.
C4_Witness == Returned /\ landmarks_dict # None /\ DOMAIN landmarks_dict[1] = {}

C7_DegenerateIsFailure ==
    (Returned /\ ShouldersReliable /\ HipsReliable /\ ZeroVector) =>
        (Res.angle = None /\ ~Res.is_slouched)

\* C8: there is a configuration (STRICT) under which, with both shoulders
\* reliable and a hip missing or unreliable, the call returns the failure
\* result and not the shoulder-only branch's.
C8_StrictHipFailure ==
    (Returned /\ ShouldersReliable
        /\ (MissingOrUnreliable(LEFT_HIP) \/ MissingOrUnreliable(RIGHT_HIP))) =>
        \E t \in Thresholds :
            LET r == analyze_posture([threshold_angle |-> t], landmarks_dict)
            IN  ~r.raised /\ r.line # 215 /\ IsFailure(r.value[1])

\* C9: with both shoulders reliable, the hip-based branch decides the result
\* when both hips are reliable, and otherwise the shoulder-only branch returns
\* a result that is no failure and has a numeric angle.
C9_AdaptiveDispatch ==
    (Returned /\ ShouldersReliable) =>
        IF HipsReliable
        THEN return_line = 152
        ELSE return_line = 215 /\ Res.angle # None /\ ~IsFailure(Res)

\* The scenario of C10: threshold_angle 35, shoulders at (0.4,0.5) and
\* (0.6,0.5), hips at (0.45,0.8) and (0.55,0.8), a reliable nose at
\* (0.54,0.5), so that the neck estimate is (0.52,0.5).
At(id, x, y) == In(id) # None /\ HasXY(In(id)) /\ In(id)[1].x = x /\ In(id)[1].y = y

\* C10, its case: the call has returned on the scenario's input.
C10_Witness ==
    /\ Returned
    /\ threshold_angle = DefaultThreshold
    /\ ShouldersReliable /\ HipsReliable
    /\ At(LEFT_SHOULDER, 4000, 5000) /\ At(RIGHT_SHOULDER, 6000, 5000)
    /\ At(LEFT_HIP, 4500, 8000) /\ At(RIGHT_HIP, 5500, 8000)
    /\ At(NOSE, 5400, 5000)
    /\ InNeck = <<4 * 5200, 4 * 5000>>

\* C10 as stated: in the scenario the hip-based branch computes about 130
\* degrees and returns slouched with confidence 0.5.
C10_Original ==
    C10_Witness =>
        /\ return_line = 152
        /\ Res.angle[1] \in 1250..1350
        /\ Res.is_slouched
        /\ Res.confidence = One \div 2

\* C10, amended: in the scenario the hip-based branch computes 90 degrees and
\* returns slouched with confidence min(1, (145 - 90) / 30) = 1.0.
C10_Scenario ==
    C10_Witness =>
        /\ return_line = 152
        /\ Res.angle[1] = RightAngle
        /\ Res.is_slouched
        /\ Res.confidence = One

\* C14: after the shoulder gate the neck estimate is midpoint(nose,
\* shoulderMid) whenever NOSE is present with a score at or above the score
\* threshold (a score equal to it counts), and otherwise
\* (shoulderMid.x, shoulderMid.y - 0.05).
C14_NeckEstimate ==
    (Returned /\ ShouldersReliable) =>
        InNeck = IF Reliable(NOSE)
                 THEN <<(X(In(NOSE)) + InShoulderMid[1]) \div 2,
                        (Y(In(NOSE)) + InShoulderMid[2]) \div 2>>
                 ELSE <<InShoulderMid[1], InShoulderMid[2] - NeckOffset>>

\* C15: in the hip-based branch the confidence is min(1, (B - angle) / 30)
\* when slouched and min(1, (angle - B) / 30) when not, B being
\* 180 - threshold_angle; it is 0 at the boundary and 1 at 30 degrees or more
\* from it.
C15_HipConfidenceRamp ==
    (Returned /\ return_line = 152) =>
        LET B == StraightAngle - threshold_angle
            a == Res.angle[1]
        IN  /\ Res.is_slouched => Res.confidence = Min(One, ((B - a) * One) \div HipWindow)
            /\ ~Res.is_slouched => Res.confidence = Min(One, ((a - B) * One) \div HipWindow)
            /\ a = B => Res.confidence = 0
            /\ Abs(a - B) >= HipWindow => Res.confidence = One

\* C15, its case: the angle is exactly at the boundary (90.0 degrees with
\* threshold_angle 90) and the confidence is 0.
C15_Witness ==
    /\ Returned
    /\ return_line = 152
    /\ Res.angle[1] = StraightAngle - threshold_angle
    /\ Res.confidence = 0

\* C16: in the shoulder-only branch the confidence is, when slouched, the
\* larger of min(1, |yDiff| / 0.08) and (min(1, (angle - 75) / 15) if
\* angle > 75, else 0), and, when not slouched, min(1, (0.015 + yDiff) / 0.03)
\* with a floor of 0.
C16_ShoulderOnlyConfidence ==
    (Returned /\ return_line = 215) =>
        LET a == Res.angle[1]
            by_diff == Min(One, (Abs(InYDiff) * One) \div YDiffFull)
            by_angle == IF a > AngleTrigger
                        THEN Min(One, ((a - AngleTrigger) * One) \div AngleWindow)
                        ELSE 0
        IN  Res.confidence =
                IF Res.is_slouched
                THEN Max(by_diff, by_angle)
                ELSE Max(0, Min(One, ((YDiffThreshold + InYDiff) * One) \div YDiffWindow))

\* C16, its case: slouched by the angle, whose share is below 1 and above
\* the share of the height difference.
C16_Witness ==
    /\ Returned
    /\ return_line = 215
    /\ Res.is_slouched
    /\ Res.angle[1] > AngleTrigger
    /\ Res.confidence < One
    /\ Res.confidence > Min(One, (Abs(InYDiff) * One) \div YDiffFull)

\* C17: with both shoulders reliable, the nose missing or unreliable and a
\* hip missing or unreliable, the result is slouched with angle 90 and
\* confidence 1.0, wherever the shoulders are.
C17_FallbackAlwaysSlouched ==
    (Returned /\ ShouldersReliable /\ MissingOrUnreliable(NOSE)
        /\ (MissingOrUnreliable(LEFT_HIP) \/ MissingOrUnreliable(RIGHT_HIP))) =>
        /\ Res.is_slouched
        /\ Res.angle = Some(RightAngle)
        /\ Res.confidence = One

\* C17, its case: such a call has returned, the shoulders not level.
C17_Witness ==
    /\ Returned
    /\ ShouldersReliable
    /\ In(LEFT_SHOULDER)[1].y # In(RIGHT_SHOULDER)[1].y
    /\ In(NOSE) # None
    /\ MissingOrUnreliable(NOSE)
    /\ In(LEFT_HIP) = None
    /\ return_line = 215

\* C19: the constructor calls hub.load with the URLs of version 4, version
\* 3 and no version in that order; every URL tried before the last one
\* failed to load, and once the loop is over the last one loaded or all
\* three were tried; the constructor raises RuntimeError exactly when all
\* three fail, and after a successful construction exactly one of model
\* and model_callable is set, holding the object of the first URL that
\* loaded.
C19_LoadOrder ==
    LET order == <<"/4", "/3", "">>
        fails(k) == hub_load[order[k]].raises
        over == load_pc \in {"check", "constructed", "raised"}
    IN  /\ Len(tried) <= 3
        /\ \A k \in 1..Len(tried) :
              tried[k] = Url(hub_model_name(model_name), order[k])
        /\ \A k \in 1..(Len(tried) - 1) : fails(k)
        /\ over => (Len(tried) >= 1 /\ (~fails(Len(tried)) \/ Len(tried) = 3))
        /\ load_pc = "raised" => \A k \in 1..3 : fails(k)
        /\ load_pc = "constructed" =>
              /\ ~fails(Len(tried))
              /\ (model = None) # (model_callable = None)
              /\ LET held == IF model = None THEN model_callable ELSE model
                 IN  held[1].url = tried[Len(tried)]
        /\ (over /\ \A k \in 1..3 : fails(k)) => load_pc # "constructed"

\* Version 4 failed, version 3 loaded an object with signatures that is not
\* callable, and the unversioned URL, which would load, was not tried.
C19_Witness ==
    /\ load_pc = "constructed"
    /\ Len(tried) = 2
    /\ model # None
    /\ model_callable = None
    /\ ~hub_load[""].raises

----------------------------------------------------------------------------
(* The frames of a connection, read from the state.                         *)

\* The text is a frame message whose data decodes to an image.
IsImageFrame(data) == HandleText(data).next = "analyze"

\* The image frames a connection has received, in order, and the result
\* analyze_posture gives for one of them when it runs alone on an analyzer
\* as init_modules built it.
ImageFrames(c) == SelectSeq(ws_received[c], IsImageFrame)
Alone(data) ==
    analyze_posture([threshold_angle |-> DefaultThreshold],
                    Some(data.object.data.image[1])).value
InFlight(c) == ws_pc[c] \in {"analyze", "send"}

C13_PayloadIsResult ==
    \A c \in Conns :
        /\ Len(ws_sent[c]) <= Len(ImageFrames(c))
        /\ (ws_pc[c] = "receive" /\ Len(ws_received[c]) > 0
                /\ IsImageFrame(ws_received[c][Len(ws_received[c])])) =>
              Len(ws_sent[c]) = Len(ImageFrames(c))
        /\ \A k \in 1..Len(ws_sent[c]) :
              LET payload == ws_sent[c][k]
                  r == Alone(ImageFrames(c)[k])[1]
              IN  /\ DOMAIN payload = {"is_slouched", "confidence", "angle", "message"}
                  /\ payload.is_slouched = JsonBoolean(r.is_slouched)
                  /\ payload.confidence = JsonNumber(r.confidence)
                  /\ payload.angle = IF r.angle = None THEN JsonNull ELSE JsonNumber(r.angle[1])
                  /\ payload.message = JsonString(r.message)

\* A connection has sent the failure result of a frame without reliable
\* shoulders (angle null) and then the result of a slouched frame (angle a
\* number).
C13_Witness ==
    \E c \in Conns :
        /\ Len(ws_sent[c]) = 2
        /\ ws_sent[c][1].angle = JsonNull
        /\ ws_sent[c][2].angle.json_type = "number"
        /\ ws_sent[c][2].is_slouched = JsonBoolean(TRUE)
        /\ ws_pc[c] = "receive"

\* C18: on each connection the payloads sent are the results of the image
\* frames received, one for each and in their order, all sent before the
\* next message is read; and the handler is not ended by a frame message
\* that fails to decode or by a message of another type.
C18_OneResultPerFrame ==
    \A c \in Conns :
        /\ Len(ws_sent[c]) = Len(ImageFrames(c)) - (IF InFlight(c) THEN 1 ELSE 0)
        /\ \A k \in 1..Len(ws_sent[c]) : ws_sent[c][k] = ToJson(Alone(ImageFrames(c)[k])[1])
        /\ ws_pc[c] = "raised" => ~ws_received[c][Len(ws_received[c])].is_json

\* The part of C18 that concerns the responses alone.
C18_Responses ==
    \A c \in Conns :
        /\ Len(ws_sent[c]) = Len(ImageFrames(c)) - (IF InFlight(c) THEN 1 ELSE 0)
        /\ \A k \in 1..Len(ws_sent[c]) : ws_sent[c][k] = ToJson(Alone(ImageFrames(c)[k])[1])
        /\ (ws_pc[c] = "raised" /\ ws_received[c][Len(ws_received[c])].is_json) =>
              LET message == ws_received[c][Len(ws_received[c])].object
              IN  /\ Get(message, "type") = Some("frame")
                  /\ ("data" \notin DOMAIN message \/ ~message.data.valid_base64)

====
